---- MODULE Spec2Model ----
(***************************************************************************)
(* The flight sequencing engine of novafc-software:                        *)
(*   common/src/state_machine/mod.rs  (StateMachine, Timeout)              *)
(*   common/src/data-format/mod.rs    (FloatCondition, CheckData,          *)
(*                                     ObjectState, CommandObject)         *)
(* Time is counted in whole clock units; a float measurement is an         *)
(* integer of the same order.  execute_check matches the flag variant of   *)
(* ObjectState under the name Bool; the enum declares it as Flag.          *)
(***************************************************************************)
EXTENDS Integers, Sequences, FiniteSets, TLC

VARIABLES
    pc,                    \* "new": before StateMachine::new, "running", "panicked"
    panic_msg,             \* the message of the panic that stopped the engine
    begin,                 \* the begin state handed to StateMachine::new
    graph,                 \* the static State graph (immutable configuration)
    current_state,         \* StateMachine.current_state
    start_time,            \* StateMachine.start_time
    last_transition_time,  \* StateMachine.last_transition_time
    was_executed,          \* Command.was_executed of every command of every state
    now,                   \* the latest reading of the monotonic clock
    controls,              \* the controls.set invocations of the latest execute()
    set_count,             \* history: controls.set invocations per command since its state was entered
    invoked,               \* history: the commands controls.set was invoked for since their flag was last unset
    in_reads,              \* history: the clock readings of the latest execute()
    in_dw,                 \* history: the data workspace seen by the latest execute()
    last                   \* history: what the latest execute() did

vars == <<pc, panic_msg, begin, graph, current_state, start_time,
          last_transition_time, was_executed, now, controls, set_count,
          invoked, in_reads, in_dw, last>>

(***************************************************************************)
(* Bounds of the model.                                                    *)
(***************************************************************************)
MaxTime == 3
MaxAlt == 3
CountCap == 2

(***************************************************************************)
(* Program constants.                                                      *)
(***************************************************************************)
MAX_STATES == 16
MAX_CHECKS_PER_STATE == 3
MAX_COMMANDS_PER_STATE == 3

(***************************************************************************)
(* data-format: values, conditions, checks, commands, transitions.         *)
(***************************************************************************)
Flag(b) == [tag |-> "Flag", flag |-> b, num |-> 0]
Float(x) == [tag |-> "Float", flag |-> FALSE, num |-> x]
Short(n) == [tag |-> "Short", flag |-> FALSE, num |-> n]

ObjectState == {Flag(b) : b \in BOOLEAN} \cup {Float(x) : x \in 0..MaxAlt} \cup {Short(0)}

GreaterThan(x) == [op |-> "GreaterThan", expected |-> x, upper_bound |-> 0, lower_bound |-> 0]
LessThan(x) == [op |-> "LessThan", expected |-> x, upper_bound |-> 0, lower_bound |-> 0]
Between(u, l) == [op |-> "Between", expected |-> 0, upper_bound |-> u, lower_bound |-> l]

NoCondition == [op |-> "None", expected |-> 0, upper_bound |-> 0, lower_bound |-> 0]

Altitude(c) == [kind |-> "Altitude", flag |-> FALSE, cond |-> c]
ApogeeFlag(b) == [kind |-> "ApogeeFlag", flag |-> b, cond |-> NoCondition]
Pyro1Continuity(b) == [kind |-> "Pyro1Continuity", flag |-> b, cond |-> NoCondition]
Pyro2Continuity(b) == [kind |-> "Pyro2Continuity", flag |-> b, cond |-> NoCondition]
Pyro3Continuity(b) == [kind |-> "Pyro3Continuity", flag |-> b, cond |-> NoCondition]

CheckKind == {"Altitude", "ApogeeFlag", "Pyro1Continuity", "Pyro2Continuity", "Pyro3Continuity"}

NoState == 0
NoTransition == [tag |-> "None", state |-> NoState]
Abort(s) == [tag |-> "Abort", state |-> s]
Transition(s) == [tag |-> "Transition", state |-> s]

Check(d, t) == [data |-> d, transition |-> t]
Command(o, d) == [object |-> o, delay |-> d]

NoTimeout == [some |-> FALSE, time |-> 0, transition |-> NoTransition]
Timeout(time, t) == [some |-> TRUE, time |-> time, transition |-> t]

State(checks, commands, timeout) ==
    [checks |-> checks, commands |-> commands, timeout |-> timeout]

(***************************************************************************)
(* The state graphs the engine is run on.  States are numbered from 1.     *)
(***************************************************************************)
\* pad -> ascent -> pad (cycle), pad -> safe (abort), safe -> safe (self-loop)
FlightGraph ==
    <<State(<<Check(ApogeeFlag(TRUE), Transition(2)),
              Check(Pyro1Continuity(TRUE), Abort(3))>>,
            <<Command("Beacon(true)", 0), Command("Pyro1(true)", 2)>>,
            NoTimeout),
      State(<<Check(Altitude(GreaterThan(1)), NoTransition),
              Check(Altitude(LessThan(3)), Transition(1))>>,
            <<Command("Pyro2(true)", 1)>>,
            NoTimeout),
      State(<<Check(ApogeeFlag(FALSE), Transition(3))>>,
            <<Command("DataRate(10)", 1)>>,
            NoTimeout)>>

\* ascent falls back to descent on a timeout
TimeoutGraph ==
    <<State(<<Check(Altitude(LessThan(0)), NoTransition)>>,
            <<Command("Beacon(true)", 0)>>,
            Timeout(2, Transition(2))),
      State(<< >>,
            <<Command("Pyro1(true)", 1)>>,
            NoTimeout),
      State(<<Check(ApogeeFlag(TRUE), Abort(1))>>,
            << >>,
            Timeout(1, Transition(2)))>>

\* interval checks: upper > lower, upper > lower, upper = lower
BetweenGraph ==
    <<State(<<Check(Altitude(Between(2, 0)), Transition(2))>>,
            <<Command("Beacon(true)", 1)>>,
            NoTimeout),
      State(<<Check(Altitude(Between(3, 1)), Transition(3)),
              Check(Altitude(GreaterThan(0)), Abort(1))>>,
            << >>,
            NoTimeout),
      State(<<Check(Altitude(Between(1, 1)), Abort(1))>>,
            <<Command("Pyro3(true)", 0)>>,
            NoTimeout)>>

\* hold states with a timeout: a check without a transition, an interval check
HoldGraph ==
    <<State(<<Check(Altitude(GreaterThan(0)), NoTransition)>>,
            <<Command("Beacon(true)", 0)>>,
            Timeout(1, Transition(2))),
      State(<<Check(Altitude(Between(2, 1)), Transition(1))>>,
            << >>,
            Timeout(1, Abort(3))),
      State(<< >>,
            <<Command("Pyro1(true)", 0)>>,
            NoTimeout)>>

\* a state filled to the capacity of the data format, looping to itself
FullGraph ==
    <<State(<<Check(Altitude(GreaterThan(2)), Abort(2)),
              Check(Altitude(LessThan(1)), NoTransition),
              Check(Altitude(GreaterThan(0)), Transition(1))>>,
            <<Command("Pyro1(true)", 0), Command("Pyro2(true)", 1),
              Command("Pyro3(true)", 2)>>,
            NoTimeout),
      State(<< >>, << >>, NoTimeout)>>

Graphs == {FlightGraph, TimeoutGraph, BetweenGraph, HoldGraph, FullGraph}

States(g) == DOMAIN g

\* the capacity ceilings of the data format
GraphOK(g) ==
    /\ Len(g) <= MAX_STATES
    /\ \A s \in States(g) :
          /\ Len(g[s].checks) <= MAX_CHECKS_PER_STATE
          /\ Len(g[s].commands) <= MAX_COMMANDS_PER_STATE

(***************************************************************************)
(* StateMachine::execute_command, for every command of the current state   *)
(* in list order.  reads[i] is the clock reading of the i-th command's     *)
(* elapsed(); was is the state's was_executed flags before the loop.       *)
(***************************************************************************)
elapsed(since, reading) == reading - since

\* execute_command without the was_executed test
execute_command_refire(command, flag, ltt, reading) ==
    reading - ltt >= command.delay

\* execute_command with a strict comparison of the delay
execute_command_strict(command, flag, ltt, reading) ==
    /\ ~flag
    /\ reading - ltt > command.delay

\* TRUE iff execute_command invokes controls.set for this command
execute_command(command, flag, ltt, reading) ==
    /\ ~flag
    /\ elapsed(ltt, reading) >= command.delay

execute_commands(commands, was, ltt, reads) ==
    [i \in 1..Len(commands) |-> execute_command(commands[i], was[i], ltt, reads[i])]

(***************************************************************************)
(* StateMachine::execute_check.                                            *)
(***************************************************************************)
\* CheckData::kind
kind(data) == data.kind

FloatCondition_eval(condition, actual) ==
    CASE condition.op = "LessThan" -> actual < condition.expected
      [] condition.op = "GreaterThan" -> actual > condition.expected
      [] condition.op = "Between" ->
            actual >= condition.upper_bound /\ actual <= condition.lower_bound
      [] OTHER -> FALSE

\* a match that takes a value of the wrong kind as it comes
Mismatched_coerced(data, value) == FALSE

\* the arm `_ => unreachable!(...)` of the match
Mismatched(data, value) ==
    IF data.kind = "Altitude" THEN value.tag # "Float" ELSE value.tag # "Flag"

Satisfied(data, value) ==
    IF data.kind = "Altitude"
    THEN FloatCondition_eval(data.cond, value.num)
    ELSE data.flag = value.flag

\* the Option<StateTransition> a check returns when it does not panic
execute_check(check, value) ==
    IF Satisfied(check.data, value) THEN check.transition ELSE NoTransition

(***************************************************************************)
(* StateMachine::execute_state from the check loop on: the checks in list  *)
(* order from index i, then the timeout.  The result says how the body     *)
(* ended, which transition it returned, and how many checks it evaluated.  *)
(***************************************************************************)
\* a check loop that goes on after a transition was returned: the last one wins
RECURSIVE execute_checks_last(_, _, _, _)
execute_checks_last(checks, timeout, dw, i) ==
    IF i > Len(checks)
    THEN IF timeout.some
         THEN [end |-> "panic", msg |-> "", transition |-> NoTransition,
               evaluated |-> i - 1, by |-> 0]
         ELSE [end |-> "none", msg |-> "none", transition |-> NoTransition,
               evaluated |-> i - 1, by |-> 0]
    ELSE IF Mismatched(checks[i].data, dw[kind(checks[i].data)])
         THEN [end |-> "panic", msg |-> "mismatched types", transition |-> NoTransition,
               evaluated |-> i, by |-> 0]
         ELSE LET rest == execute_checks_last(checks, timeout, dw, i + 1)
              IN  IF rest.end = "none"
                     /\ execute_check(checks[i], dw[kind(checks[i].data)]) # NoTransition
                  THEN [end |-> "some", msg |-> "none",
                        transition |-> execute_check(checks[i], dw[kind(checks[i].data)]),
                        evaluated |-> Len(checks), by |-> i]
                  ELSE rest

RECURSIVE execute_checks(_, _, _, _)
execute_checks(checks, timeout, dw, i) ==
    IF i > Len(checks)
    THEN IF timeout.some
         THEN [end |-> "panic", msg |-> "", transition |-> NoTransition,
               evaluated |-> i - 1, by |-> 0]
         ELSE [end |-> "none", msg |-> "none", transition |-> NoTransition,
               evaluated |-> i - 1, by |-> 0]
    ELSE IF Mismatched(checks[i].data, dw[kind(checks[i].data)])
         THEN [end |-> "panic", msg |-> "mismatched types", transition |-> NoTransition,
               evaluated |-> i, by |-> 0]
         ELSE IF execute_check(checks[i], dw[kind(checks[i].data)]) # NoTransition
              THEN [end |-> "some", msg |-> "none",
                    transition |-> execute_check(checks[i], dw[kind(checks[i].data)]),
                    evaluated |-> i, by |-> i]
              ELSE execute_checks(checks, timeout, dw, i + 1)

(***************************************************************************)
(* StateMachine::transition: the destination of either kind of transition  *)
(* becomes the current state and the state time restarts at Timestamp::now.*)
(***************************************************************************)
\* a match whose Abort arm yields the first state of the graph
new_state_abort_first(transition) ==
    IF transition.tag = "Abort" THEN 1 ELSE transition.state

new_state(transition) ==
    CASE transition.tag = "Abort" -> transition.state
      [] transition.tag = "Transition" -> transition.state

\* a transition whose Abort arm leaves the state time alone
transition_abort_keeps_time(e, t, reading) ==
    IF t.tag = "Abort"
    THEN [e EXCEPT !.current_state = t.state]
    ELSE [e EXCEPT !.current_state = t.state, !.last_transition_time = reading]

\* a transition that restarts the engine's start time along with the state time
transition_restarts_start(e, t, reading) ==
    [e EXCEPT !.current_state = t.state,
              !.last_transition_time = reading,
              !.start_time = reading]

\* a transition that does not restart the state time
transition_keeps_time(e, t, reading) ==
    [e EXCEPT !.current_state = t.state]

transition(e, t, reading) ==
    [e EXCEPT !.current_state = new_state(t),
              !.last_transition_time = reading]

\* the line transition prints under the std feature
diagnostic(t) ==
    CASE t.tag = "Abort" -> "Aborted to state"
      [] t.tag = "Transition" -> "Transitioned to state"
      [] OTHER -> "none"

(***************************************************************************)
(* StateMachine::execute on the engine value e over graph g: the commands, *)
(* the checks, the timeout, then the transition when one was returned.     *)
(* reads are the clock readings of the tick in program order (one per      *)
(* command, the last one for Timestamp::now() in transition) and dw is the *)
(* data workspace: the ObjectState it returns for each CheckKind.          *)
(***************************************************************************)
Engine ==
    [current_state |-> current_state, start_time |-> start_time,
     last_transition_time |-> last_transition_time,
     was_executed |-> was_executed, pc |-> pc, panic_msg |-> panic_msg]

\* an execute_state that sets was_executed for every command it visits
execute_state_marks_all(g, e, reads, dw) ==
    LET st == g[e.current_state]
        fired == execute_commands(st.commands, e.was_executed[e.current_state],
                                  e.last_transition_time, reads)
    IN  [fired |-> fired,
         was |-> [i \in 1..Len(st.commands) |-> TRUE],
         res |-> execute_checks(st.checks, st.timeout, dw, 1)]

\* an execute_state that runs the checks first and returns the transition
\* before any command is looked at
execute_state_checks_first(g, e, reads, dw) ==
    LET st == g[e.current_state]
        res == execute_checks(st.checks, st.timeout, dw, 1)
        fired == [i \in 1..Len(st.commands) |->
                     /\ res.end = "none"
                     /\ execute_command(st.commands[i], e.was_executed[e.current_state][i],
                                        e.last_transition_time, reads[i])]
    IN  [fired |-> fired,
         was |-> [i \in 1..Len(st.commands) |->
                     e.was_executed[e.current_state][i] \/ fired[i]],
         res |-> res]

execute_state(g, e, reads, dw) ==
    LET st == g[e.current_state]
        fired == execute_commands(st.commands, e.was_executed[e.current_state],
                                  e.last_transition_time, reads)
    IN  [fired |-> fired,
         was |-> [i \in 1..Len(st.commands) |->
                     e.was_executed[e.current_state][i] \/ fired[i]],
         res |-> execute_checks(st.checks, st.timeout, dw, 1)]

\* an execute that goes on with the commands of the state it has just entered
execute_chained(g, e, reads, dw) ==
    LET r == execute_state(g, e, reads, dw)
        e1 == [e EXCEPT !.was_executed[e.current_state] = r.was]
    IN  CASE r.res.end = "panic" ->
                [e1 EXCEPT !.pc = "panicked", !.panic_msg = r.res.msg]
          [] r.res.end = "some" ->
                LET e2 == transition(e1, r.res.transition, reads[Len(reads)])
                    cs == g[e2.current_state].commands
                IN  [e2 EXCEPT !.was_executed[e2.current_state] =
                        [i \in 1..Len(cs) |->
                            \/ e2.was_executed[e2.current_state][i]
                            \/ execute_command(cs[i], e2.was_executed[e2.current_state][i],
                                               e2.last_transition_time, reads[Len(reads)])]]
          [] OTHER -> e1

execute(g, e, reads, dw) ==
    LET r == execute_state(g, e, reads, dw)
        e1 == [e EXCEPT !.was_executed[e.current_state] = r.was]
    IN  CASE r.res.end = "panic" ->
                [e1 EXCEPT !.pc = "panicked", !.panic_msg = r.res.msg]
          [] r.res.end = "some" ->
                transition(e1, r.res.transition, reads[Len(reads)])
          [] OTHER -> e1

\* a command loop that hands every due command to controls.set twice
RECURSIVE dispatched_twice(_, _)
dispatched_twice(fired, i) ==
    IF i > Len(fired) THEN << >>
    ELSE IF fired[i] THEN <<i, i>> \o dispatched_twice(fired, i + 1)
         ELSE dispatched_twice(fired, i + 1)

\* a command loop that walks the list from its end
RECURSIVE dispatched_reverse(_, _)
dispatched_reverse(fired, i) ==
    IF i > Len(fired) THEN << >>
    ELSE IF fired[i] THEN dispatched_reverse(fired, i + 1) \o <<i>>
         ELSE dispatched_reverse(fired, i + 1)

\* the indices of the commands handed to controls.set, in dispatch order
RECURSIVE dispatched(_, _)
dispatched(fired, i) ==
    IF i > Len(fired) THEN << >>
    ELSE IF fired[i] THEN <<i>> \o dispatched(fired, i + 1)
         ELSE dispatched(fired, i + 1)

(***************************************************************************)
(* The inputs of one tick.                                                 *)
(***************************************************************************)
\* the clock is monotonic: n readings, none before t, none decreasing
Reads(t, n) ==
    {r \in [1..n -> t..MaxTime] : \A i \in 1..(n - 1) : r[i] <= r[i + 1]}

KindsOf(checks) == {kind(checks[i].data) : i \in 1..Len(checks)}

DataWorkspaces(checks) == [KindsOf(checks) -> ObjectState]

(***************************************************************************)
(* The state machine.                                                      *)
(***************************************************************************)
NoTick ==
    [tick |-> FALSE, from |-> NoState, ltt |-> 0, was |-> << >>, fired |-> << >>,
     end |-> "none", transition |-> NoTransition, evaluated |-> 0, by |-> 0,
     diag |-> "none"]

\* Before the call of StateMachine::new (pc = "new"), or the engine value its
\* struct expression describes (pc = "running"): current_state = begin and
\* start_time = last_transition_time = the clock reading.  new itself never
\* returns that value (see New), so the ticks are run from it directly, as
\* code inside the module can build it.  Every command starts unexecuted.
Init ==
    /\ graph \in Graphs
    /\ GraphOK(graph)
    /\ begin \in States(graph)
    /\ now \in 0..1
    /\ pc \in {"new", "running"}
    /\ panic_msg = "none"
    /\ current_state = IF pc = "running" THEN begin ELSE NoState
    /\ start_time = IF pc = "running" THEN now ELSE 0
    /\ last_transition_time = start_time
    /\ was_executed = [s \in States(graph) |-> [i \in 1..Len(graph[s].commands) |-> FALSE]]
    /\ controls = << >>
    /\ set_count = [s \in States(graph) |-> [i \in 1..Len(graph[s].commands) |-> 0]]
    /\ invoked = {}
    /\ in_reads = << >>
    /\ in_dw = << >>
    /\ last = NoTick

\* StateMachine::new: panics before the engine value is built
New ==
    /\ pc = "new"
    /\ pc' = "panicked"
    /\ panic_msg' = "fix time"
    /\ UNCHANGED <<begin, graph, current_state, start_time, last_transition_time,
                   was_executed, now, controls, set_count, invoked, in_reads,
                   in_dw, last>>

Bump(n) == IF n < CountCap THEN n + 1 ELSE CountCap

\* StateMachine::execute: one tick
Execute ==
    /\ pc = "running"
    /\ \E reads \in Reads(now, Len(graph[current_state].commands) + 1),
          dw \in DataWorkspaces(graph[current_state].checks) :
          LET r == execute_state(graph, Engine, reads, dw)
              e == execute(graph, Engine, reads, dw)
              counted == [set_count EXCEPT ![current_state] =
                            [i \in DOMAIN r.fired |->
                                IF r.fired[i] THEN Bump(set_count[current_state][i])
                                ELSE set_count[current_state][i]]]
          IN  /\ current_state' = e.current_state
              /\ start_time' = e.start_time
              /\ last_transition_time' = e.last_transition_time
              /\ was_executed' = e.was_executed
              /\ pc' = e.pc
              /\ panic_msg' = e.panic_msg
              /\ now' = reads[Len(reads)]
              /\ controls' = dispatched(r.fired, 1)
              /\ set_count' = IF r.res.end = "some"
                              THEN [counted EXCEPT ![e.current_state] =
                                       [i \in DOMAIN counted[e.current_state] |-> 0]]
                              ELSE counted
              /\ invoked' = invoked \cup {<<current_state, i>> : i \in {k \in DOMAIN r.fired : r.fired[k]}}
              /\ in_reads' = reads
              /\ in_dw' = dw
              /\ last' = [tick |-> TRUE, from |-> current_state,
                          ltt |-> last_transition_time,
                          was |-> was_executed[current_state],
                          fired |-> r.fired, end |-> r.res.end,
                          transition |-> r.res.transition,
                          evaluated |-> r.res.evaluated, by |-> r.res.by,
                          diag |-> diagnostic(r.res.transition)]
    /\ UNCHANGED <<begin, graph>>

Next == New \/ Execute

Spec == Init /\ [][Next]_vars

TypeOK ==
    /\ pc \in {"new", "running", "panicked"}
    /\ graph \in Graphs
    /\ begin \in States(graph)
    /\ current_state \in States(graph) \cup {NoState}
    /\ now \in 0..MaxTime
    /\ start_time \in 0..MaxTime
    /\ last_transition_time \in start_time..now

(***************************************************************************)
(* The latest tick, as the properties read it.                             *)
(***************************************************************************)
\* the commands and checks of the state the latest tick ran in
TickCommands == graph[last.from].commands
TickChecks == graph[last.from].checks
TickTimeout == graph[last.from].timeout

\* the time since the last transition that command i's elapsed() reading showed
ElapsedAt(i) == in_reads[i] - last.ltt

\* controls.set was invoked for command i in the latest tick
WasSet(i) == \E k \in 1..Len(controls) : controls[k] = i

(***************************************************************************)
(* C1: a command is handed to controls.set at most once per activation of  *)
(* its owning state: once it has fired, no later tick fires it again       *)
(* before the engine has transitioned into that state again.               *)
(***************************************************************************)
C1_AtMostOncePerActivation ==
    \A s \in States(graph) :
        \A i \in 1..Len(graph[s].commands) : set_count[s][i] <= 1

\* a tick that stayed in the state passed over a fired command whose delay had elapsed
C1_Witness ==
    /\ last.tick
    /\ last.end = "none"
    /\ \E i \in 1..Len(TickCommands) :
          /\ last.was[i]
          /\ ElapsedAt(i) >= TickCommands[i].delay
          /\ set_count[last.from][i] = 1
          /\ ~WasSet(i)

(***************************************************************************)
(* C2: a transition into a state (a cycle or a self-loop included) resets  *)
(* the one-shot flags of all of that state's commands, so that a command   *)
(* fired in an earlier activation can fire again.                          *)
(***************************************************************************)
C2_FlagsResetOnEntry ==
    (last.tick /\ last.end = "some") =>
        \A i \in 1..Len(graph[current_state].commands) :
            ~was_executed[current_state][i]

(***************************************************************************)
(* C3: a command with delay D is not fired, and its flag stays as it was,  *)
(* in a tick that reads an elapsed time below D; it is fired, and its flag *)
(* set, in a tick that reads an elapsed time of D or more with the flag    *)
(* unset.                                                                  *)
(***************************************************************************)
C3_FiresWhenDelayElapsed ==
    last.tick =>
        \A i \in 1..Len(TickCommands) :
            /\ ElapsedAt(i) < TickCommands[i].delay =>
                  /\ ~WasSet(i)
                  /\ was_executed[last.from][i] = last.was[i]
            /\ (ElapsedAt(i) >= TickCommands[i].delay /\ ~last.was[i]) =>
                  /\ WasSet(i)
                  /\ was_executed[last.from][i]

\* a command with a delay fired on the tick that read exactly its delay,
\* while an earlier tick of this activation had fired another command
C3_Witness ==
    /\ last.tick
    /\ \E i, j \in 1..Len(TickCommands) :
          /\ TickCommands[i].delay > 0
          /\ ElapsedAt(i) = TickCommands[i].delay
          /\ WasSet(i)
          /\ last.was[j]
          /\ ~last.was[i]

(***************************************************************************)
(* What the data format says of a check and a value, stated apart from the *)
(* engine's evaluation of it.                                              *)
(***************************************************************************)
\* the kind of value the data workspace owes for a quantity
Expects(k) == IF k = "Altitude" THEN "Float" ELSE "Flag"

WrongKind(data, value) == value.tag # Expects(data.kind)

\* the condition of a check is true of a value of the right kind
Holds(data, value) ==
    IF data.kind = "Altitude"
    THEN CASE data.cond.op = "LessThan" -> value.num < data.cond.expected
           [] data.cond.op = "GreaterThan" -> value.num > data.cond.expected
           [] data.cond.op = "Between" ->
                 data.cond.lower_bound <= value.num /\ value.num <= data.cond.upper_bound
           [] OTHER -> FALSE
    ELSE value.flag = data.flag

\* the value the latest tick's data workspace holds for check i
TickValue(i) == in_dw[TickChecks[i].data.kind]

\* every value is of the right kind and no condition is true
NoCheckHolds ==
    \A i \in 1..Len(TickChecks) :
        /\ ~WrongKind(TickChecks[i].data, TickValue(i))
        /\ ~Holds(TickChecks[i].data, TickValue(i))

\* the checks that carry a transition and whose condition is true
Winners ==
    {i \in 1..Len(TickChecks) :
        /\ TickChecks[i].transition # NoTransition
        /\ Holds(TickChecks[i].data, TickValue(i))}

FirstWinner == CHOOSE i \in Winners : \A j \in Winners : i <= j

\* the time since the last transition at the end of the latest tick
TickElapsed == in_reads[Len(in_reads)] - last.ltt

TimeoutElapsed == TickTimeout.some /\ TickElapsed >= TickTimeout.time

(***************************************************************************)
(* C4: when no check is satisfied and the state's timeout has elapsed, the *)
(* tick takes the timeout's transition; before that the state stays.       *)
(***************************************************************************)
C4_TimeoutTaken ==
    (last.tick /\ TickTimeout.some /\ NoCheckHolds) =>
        IF TickElapsed >= TickTimeout.time
        THEN /\ pc = "running"
             /\ current_state = TickTimeout.transition.state
        ELSE current_state = last.from

(***************************************************************************)
(* C5: a tick in which no check is satisfied and no timeout has elapsed    *)
(* completes and changes neither the current state nor the last-transition *)
(* time, whether or not the state declares a timeout.                      *)
(***************************************************************************)
C5_NoOpTick ==
    (last.tick /\ NoCheckHolds /\ ~TimeoutElapsed) =>
        /\ pc = "running"
        /\ current_state = last.from
        /\ last_transition_time = last.ltt

(***************************************************************************)
(* C6: when two checks that carry a transition are both satisfied in one   *)
(* tick, the transition of the earliest declared one is taken and the      *)
(* later one's is not.                                                     *)
(***************************************************************************)
C6_EarliestCheckWins ==
    (/\ last.tick
     /\ \A i \in 1..Len(TickChecks) : ~WrongKind(TickChecks[i].data, TickValue(i))
     /\ Cardinality(Winners) >= 2) =>
        /\ last.end = "some"
        /\ last.by = FirstWinner
        /\ current_state = TickChecks[FirstWinner].transition.state

(***************************************************************************)
(* C7: an Altitude check with an interval condition whose upper bound is   *)
(* not below its lower bound is satisfied iff                              *)
(* lower_bound <= value <= upper_bound.                                    *)
(***************************************************************************)
C7_ClosedInterval ==
    last.tick =>
        \A i \in 1..last.evaluated :
            (/\ TickChecks[i].data.kind = "Altitude"
             /\ TickChecks[i].data.cond.op = "Between"
             /\ TickChecks[i].data.cond.upper_bound >= TickChecks[i].data.cond.lower_bound
             /\ TickChecks[i].transition # NoTransition
             /\ ~WrongKind(TickChecks[i].data, TickValue(i))) =>
                ((last.by = i) <=>
                    (/\ TickChecks[i].data.cond.lower_bound <= TickValue(i).num
                     /\ TickValue(i).num <= TickChecks[i].data.cond.upper_bound))

(***************************************************************************)
(* C8: a check that receives a value of the wrong kind stops the engine:   *)
(* the tick selects no transition, and the current state and the           *)
(* last-transition time stay as they were, for good.                       *)
(***************************************************************************)
WrongKindReceived ==
    /\ last.tick
    /\ \E i \in 1..last.evaluated : WrongKind(TickChecks[i].data, TickValue(i))

C8_MismatchHalts ==
    WrongKindReceived =>
        /\ pc = "panicked"
        /\ last.transition = NoTransition
        /\ current_state = last.from
        /\ last_transition_time = last.ltt

\* the second check of a state got a flag for an altitude, after the first
\* check was evaluated and a command was dispatched in the same tick
C8_Witness ==
    /\ WrongKindReceived
    /\ last.evaluated = 2
    /\ Len(controls) > 0
    /\ panic_msg = "mismatched types"

(***************************************************************************)
(* C9: constructing the engine with begin state B completes, and the       *)
(* engine it yields has B as its current state and a start time equal to   *)
(* its last-transition time.                                               *)
(***************************************************************************)
C9_Constructed ==
    (pc # "new" /\ ~last.tick) =>
        /\ pc = "running"
        /\ current_state = begin
        /\ start_time = last_transition_time

(***************************************************************************)
(* C10: Abort and Transition are the same but for the diagnostic: on the   *)
(* graph with every Abort made a Transition and every Transition an Abort, *)
(* a tick from the same engine state with the same clock readings and      *)
(* sensor values ends in the same current state, last-transition time,     *)
(* command flags and controls.set invocations.                             *)
(***************************************************************************)
SwapTag(t) ==
    CASE t.tag = "Abort" -> Transition(t.state)
      [] t.tag = "Transition" -> Abort(t.state)
      [] OTHER -> t

SwapTags(g) ==
    [s \in DOMAIN g |->
        [checks |-> [i \in DOMAIN g[s].checks |->
                        [data |-> g[s].checks[i].data,
                         transition |-> SwapTag(g[s].checks[i].transition)]],
         commands |-> g[s].commands,
         timeout |-> [some |-> g[s].timeout.some, time |-> g[s].timeout.time,
                      transition |-> SwapTag(g[s].timeout.transition)]]]

C10_AbortLikeTransition ==
    [][pc = "running" =>
          /\ Engine' = execute(SwapTags(graph), Engine, in_reads', in_dw')
          /\ controls' = dispatched(execute_state(SwapTags(graph), Engine,
                                                  in_reads', in_dw').fired, 1)]_vars

\* a tick dispatched a command and then took an Abort at a later clock reading
C10_Witness ==
    /\ last.tick
    /\ last.transition.tag = "Abort"
    /\ last.diag = "Aborted to state"
    /\ Len(controls) > 0
    /\ current_state = last.transition.state
    /\ current_state # last.from
    /\ last_transition_time > last.ltt

(***************************************************************************)
(* C11: after a tick that selected a transition, the current state is that *)
(* transition's destination and the last-transition time is the clock      *)
(* reading of that tick, a self-loop included.                             *)
(***************************************************************************)
C11_TransitionApplied ==
    (last.tick /\ last.end = "some") =>
        /\ pc = "running"
        /\ current_state = last.transition.state
        /\ last_transition_time = in_reads[Len(in_reads)]
        /\ last_transition_time = now

\* a self-loop taken some time after the state was entered
C11_Witness ==
    /\ last.tick
    /\ last.end = "some"
    /\ current_state = last.from
    /\ last.transition.state = last.from
    /\ last_transition_time > last.ltt

(***************************************************************************)
(* C12: in a tick where a check that carries a transition is satisfied and *)
(* the state's timeout has elapsed too, the check's transition is taken    *)
(* and the timeout's is not.                                               *)
(***************************************************************************)
C12_ChecksBeforeTimeout ==
    (/\ last.tick
     /\ \A i \in 1..Len(TickChecks) : ~WrongKind(TickChecks[i].data, TickValue(i))
     /\ Winners # {}
     /\ TimeoutElapsed) =>
        /\ pc = "running"
        /\ last.end = "some"
        /\ current_state = TickChecks[FirstWinner].transition.state

(***************************************************************************)
(* C13: the commands of the current state that are eligible in a tick      *)
(* (flag unset, elapsed >= delay) are all handed to controls.set in that   *)
(* tick, in the order of the list.                                         *)
(***************************************************************************)
Eligible == {i \in 1..Len(TickCommands) :
                ~last.was[i] /\ ElapsedAt(i) >= TickCommands[i].delay}

C13_AllEligibleInOrder ==
    last.tick =>
        /\ \A i \in Eligible : WasSet(i)
        /\ Len(controls) = Cardinality(Eligible)
        /\ \A k, l \in 1..Len(controls) : k < l => controls[k] < controls[l]

\* two commands with different delays were dispatched in one tick
C13_Witness ==
    /\ last.tick
    /\ Len(controls) >= 2
    /\ TickCommands[controls[1]].delay # TickCommands[controls[2]].delay

(***************************************************************************)
(* C14: the commands of the current state are dispatched before its checks *)
(* are evaluated and before a transition is applied: in a tick that leaves *)
(* state S (or is stopped in its checks), every due command of S has been  *)
(* handed to controls.set, judged by the time since S was entered.         *)
(***************************************************************************)
C14_CommandsBeforeChecks ==
    (last.tick /\ last.end # "none") =>
        \A i \in Eligible :
            /\ WasSet(i)
            /\ was_executed[last.from][i]
            /\ <<last.from, i>> \in invoked

\* a check moved the engine to another state in the tick that dispatched a
\* delayed command of the state it left
C14_Witness ==
    /\ last.tick
    /\ last.end = "some"
    /\ last.by > 0
    /\ current_state # last.from
    /\ \E i \in Eligible : TickCommands[i].delay > 0 /\ WasSet(i)

(***************************************************************************)
(* C15: a satisfied check without a transition selects nothing and does    *)
(* not end the evaluation: a later satisfied check that carries a          *)
(* transition is taken, or else the timeout's transition once the timeout  *)
(* has elapsed.                                                            *)
(***************************************************************************)
C15_PassedOver ==
    (/\ last.tick
     /\ \A i \in 1..Len(TickChecks) : ~WrongKind(TickChecks[i].data, TickValue(i))
     /\ \E i \in 1..Len(TickChecks) :
           /\ TickChecks[i].transition = NoTransition
           /\ Holds(TickChecks[i].data, TickValue(i))
           /\ (Winners = {} \/ i < FirstWinner)) =>
        IF Winners # {}
        THEN /\ last.end = "some"
             /\ last.by = FirstWinner
             /\ current_state = TickChecks[FirstWinner].transition.state
        ELSE IF TimeoutElapsed
             THEN /\ pc = "running"
                  /\ current_state = TickTimeout.transition.state
             ELSE /\ last.end # "some"
                  /\ current_state = last.from

(***************************************************************************)
(* C16: a tick changes nothing but the current state, the last-transition  *)
(* time and one-shot flags: the start time and the graph (checks, command  *)
(* targets and delays, timeouts) stay, and so does the flag of every       *)
(* command that belongs neither to the state the tick started in nor to    *)
(* the state it moved to.                                                  *)
(***************************************************************************)
C16_Frame ==
    [][/\ start_time' = start_time
       /\ graph' = graph
       /\ begin' = begin
       /\ \A s \in States(graph) \ {current_state, current_state'} :
             was_executed'[s] = was_executed[s]]_vars

\* a tick moved the engine between two states while a command of a third
\* state, fired in an earlier activation, kept its flag
C16_Witness ==
    /\ last.tick
    /\ last.end = "some"
    /\ current_state # last.from
    /\ \E s \in States(graph) \ {last.from, current_state} :
          \E i \in 1..Len(graph[s].commands) : was_executed[s][i]

EdgeDests(st) ==
    {st.checks[i].transition.state :
        i \in {k \in 1..Len(st.checks) : st.checks[k].transition # NoTransition}}
    \cup (IF st.timeout.some THEN {st.timeout.transition.state} ELSE {})

C18_DeclaredEdges ==
    /\ (pc = "running" /\ ~last.tick) => current_state = begin
    /\ last.tick =>
          \/ last.end # "some" /\ current_state = last.from
          \/ last.end = "some" /\ current_state \in EdgeDests(graph[last.from])

\* the second check of a state with two different destinations moved the engine
C18_Witness ==
    /\ last.tick
    /\ last.end = "some"
    /\ last.by = 2
    /\ Cardinality(EdgeDests(graph[last.from])) >= 2
    /\ current_state = TickChecks[2].transition.state

(***************************************************************************)
(* C19: a tick applies at most one transition, and nothing of the state it *)
(* enters is processed in that tick: the check loop ends with the check    *)
(* that selected the transition, the engine ends in that transition's      *)
(* destination, and the commands of an entered state keep their flags and  *)
(* are not handed to controls.set.                                         *)
(***************************************************************************)
C19_OneTransitionPerTick ==
    [][(pc = "running" /\ last'.end = "some") =>
          /\ current_state' = last'.transition.state
          /\ last'.evaluated = last'.by
          /\ current_state' # current_state =>
                /\ was_executed'[current_state'] = was_executed[current_state']
                /\ \A i \in 1..Len(graph[current_state'].commands) :
                      <<current_state', i>> \in invoked' <=> <<current_state', i>> \in invoked
                /\ \A k \in 1..Len(controls') :
                      controls'[k] \in 1..Len(graph[current_state].commands)]_vars

\* the engine has just entered a state with a command of delay 0 that has not fired
C19_Witness ==
    /\ last.tick
    /\ last.end = "some"
    /\ current_state # last.from
    /\ \E i \in 1..Len(graph[current_state].commands) :
          /\ graph[current_state].commands[i].delay = 0
          /\ ~was_executed[current_state][i]
          /\ <<current_state, i>> \notin invoked

(***************************************************************************)
(* C20: between ticks a command's flag is set iff controls.set has been    *)
(* invoked for it since the flag was last unset; a tick sets no flag       *)
(* without invoking controls.set for the command and invokes controls.set  *)
(* for no command whose flag is set.                                       *)
(***************************************************************************)
C20_FlagIffInvoked ==
    /\ \A s \in States(graph) :
          \A i \in 1..Len(graph[s].commands) :
              was_executed[s][i] <=> <<s, i>> \in invoked
    /\ last.tick =>
          \A i \in 1..Len(TickCommands) :
              /\ WasSet(i) => ~last.was[i]
              /\ (was_executed[last.from][i] /\ ~last.was[i]) => WasSet(i)

\* a tick passed over a command that had fired and left another one unfired
C20_Witness ==
    /\ last.tick
    /\ \E i, j \in 1..Len(TickCommands) :
          /\ last.was[i]
          /\ <<last.from, i>> \in invoked
          /\ ~WasSet(i)
          /\ ~was_executed[last.from][j]
          /\ <<last.from, j>> \notin invoked

====
